---- MODULE Spec2Model ----
(***************************************************************************)
(* Model of GoogleDriveStorage (src/src/model/storage/gdrive.ts): the      *)
(* synchronization engine that keeps the local checklist store consistent  *)
(* with the application-data folder of a remote drive.                     *)
(*                                                                         *)
(* One action is one run-to-completion task of the browser's event loop:   *)
(* a public call, a timer tick, a token callback, or the continuation that *)
(* runs when one remote request settles.                                    *)
(***************************************************************************)
EXTENDS Integers, Sequences, FiniteSets, TLC

(***************************************************************************)
(* Bounds of the model.                                                    *)
(***************************************************************************)
MaxPasses == 2        \* passes (finished or not) the model follows at once
MaxAuth == 2          \* token requests outstanding at once
MaxEdits == 1         \* edits made by the user in the editor
MaxRemote == 3        \* entries in the remote folder
MaxRetryCount == 4    \* cap of _retryCount, which the code never bounds
MaxPageSize == 2      \* entries the drive returns in one page of a listing
MaxTime == 2          \* the wall clock, in seconds, when the user edits
MaxNameLen == 2       \* tokens of a checklist name on its way to the index
MaxTimers == 2        \* intervals the model counts

(***************************************************************************)
(* Program constants.                                                      *)
(***************************************************************************)
DISCONNECTED == 0
NEEDS_SYNC == 1
SYNCING == 2
IN_SYNC == 3
FAILED == 4
DriveSyncState == {DISCONNECTED, NEEDS_SYNC, SYNCING, IN_SYNC, FAILED}

MAX_RETRIES == 3
LONG_SYNC_INTERVAL_MS == 60000
SHORT_SYNC_INTERVAL_MS == 10000
CHECKLIST_EXTENSION == ".checklist"
CHECKLIST_MIME_TYPE == "application/vnd.damazio.efis-editor.checklist"
Unauthorized == 401
Forbidden == 403
InternalServerError == 500
NoStatus == 0         \* reason.status of a failure that is no HTTP response
MsPerSecond == 1000

\* A missing token (undefined), and the token the provider hands out.
NoToken == "undefined"
Tokens == {"token"}

(***************************************************************************)
(* Names are sequences of tokens, so that appending and stripping the      *)
(* extension are operations on the name and not the identity.              *)
(***************************************************************************)
LocalNames == {<<"a">>, <<"b">>, <<"c">>}
Bodies == {"x", "y"}          \* what the stores hold at the start
EditedBody == "z"             \* what the user then types
Statuses == {Unauthorized, Forbidden, InternalServerError}

\* name + CHECKLIST_EXTENSION
WithExtension(name) == Append(name, CHECKLIST_EXTENSION)

\* A strip that removes every trailing extension.
RECURSIVE StripEveryExtension(_)
StripEveryExtension(name) ==
  IF Len(name) > 0 /\ name[Len(name)] = CHECKLIST_EXTENSION
    THEN StripEveryExtension(SubSeq(name, 1, Len(name) - 1))
    ELSE name

\* name.endsWith(CHECKLIST_EXTENSION) ? name.slice(0, -length) : name
StripExtension(name) ==
  IF Len(name) > 0 /\ name[Len(name)] = CHECKLIST_EXTENSION
    THEN SubSeq(name, 1, Len(name) - 1)
    ELSE name

(***************************************************************************)
(* Times.  A local checklist carries seconds; a Date is milliseconds; the  *)
(* drive carries an RFC 3339 string, modelled as <<seconds, millis>>.      *)
(***************************************************************************)
\* new Date(checklist.metadata.modifiedTime * 1000)
localModifiedTime(checklist) == checklist.modifiedTime * MsPerSecond

\* Date.prototype.toISOString()
toISOString(ms) == <<ms \div MsPerSecond, ms % MsPerSecond>>

\* new Date(isoString)
parseDate(iso) == iso[1] * MsPerSecond + iso[2]

\* '1970-01-01T00:00:00Z'
EPOCH == <<0, 0>>

(***************************************************************************)
(* Checklist files and their JSON form.                                    *)
(***************************************************************************)
ChecklistFile(name, mtime, body) == [name |-> name, modifiedTime |-> mtime, body |-> body]

\* ChecklistFile.toJsonString
toJsonString(checklist) == <<"json", checklist.name, checklist.modifiedTime, checklist.body>>

\* ChecklistFile.fromJsonString (throws on anything that is no such JSON)
isJson(s) == Len(s) = 4 /\ s[1] = "json"
fromJsonString(s) == ChecklistFile(s[2], s[3], s[4])

\* The content of a remote entry that was created and never uploaded to.
EmptyContent == <<>>

(***************************************************************************)
(* LocalStore (ChecklistStorage): a map from names to checklist files.     *)
(***************************************************************************)
\* saveChecklistFile(checklist, mtime): stores the file under its own name
\* with the explicit modification time.
saveChecklistFile(store, checklist, mtime) ==
  LET saved == ChecklistFile(checklist.name, mtime \div MsPerSecond, checklist.body)
  IN  [n \in DOMAIN store \cup {checklist.name} |->
         IF n = checklist.name THEN saved ELSE store[n]]

\* listChecklistFiles(): the names of the stored files
listChecklistFiles(store) == DOMAIN store

(***************************************************************************)
(* The remote drive (gapi.client.drive): entries keyed by id.  Names need  *)
(* not be unique.                                                          *)
(***************************************************************************)
NoId == 0

DriveFile(id, name, mtime, content) ==
  [id |-> id, name |-> name, mimeType |-> CHECKLIST_MIME_TYPE,
   modifiedTime |-> mtime, content |-> content]

\* fields: 'files(id, name, modifiedTime, mimeType)'
ListedFile(f) ==
  [id |-> f.id, name |-> f.name, mimeType |-> f.mimeType, modifiedTime |-> f.modifiedTime]

\* orderBy: 'modifiedTime' (ascending; entries of equal time in id order)
ListedBefore(f, g) ==
  \/ parseDate(f.modifiedTime) < parseDate(g.modifiedTime)
  \/ parseDate(f.modifiedTime) = parseDate(g.modifiedTime) /\ f.id <= g.id

RECURSIVE SortFiles(_)
SortFiles(S) ==
  IF S = {} THEN <<>>
  ELSE LET first == CHOOSE f \in S : \A g \in S : ListedBefore(f, g)
       IN  <<first>> \o SortFiles(S \ {first})

\* files.list({q: mimeType = ..., orderBy, pageToken}): the whole listing, of
\* which one request returns one page
DriveList(drive, mimeType) ==
  SortFiles({ListedFile(drive[i]) : i \in {j \in DOMAIN drive : drive[j].mimeType = mimeType}})

\* files.create({resource: {name, mimeType, modifiedTime, parents}})
DriveCreate(drive, id, name, mtime) ==
  [i \in DOMAIN drive \cup {id} |->
     IF i = id THEN DriveFile(id, name, mtime, EmptyContent) ELSE drive[i]]

\* MultipartEncoder: a metadata part and a base64-encoded content part
Base64Encode(s) == <<"base64", s>>
Base64Decode(b) == b[2]
MultipartBody(metadata, contents) ==
  [metadata |-> metadata, media |-> Base64Encode(contents)]

\* PATCH /upload/drive/v3/files/<id>?uploadType=multipart
DrivePatch(drive, id, body) ==
  [i \in DOMAIN drive |->
     IF i = id
       THEN [drive[i] EXCEPT !.modifiedTime = body.metadata.modifiedTime,
                             !.content = Base64Decode(body.media)]
       ELSE drive[i]]

\* An upload that sends the contents and leaves the modified time to the drive.
uploadFileContentsOnly(drive, existingId, mtime, contents) ==
  LET metadata == [modifiedTime |-> drive[existingId].modifiedTime]
  IN  DrivePatch(drive, existingId, MultipartBody(metadata, contents))

\* _uploadFile(name, existingId, mimeType, mtime, contents) from the point
\* where the id is known: the multipart request that keeps the modified time
uploadFile(drive, existingId, mtime, contents) ==
  LET metadata == [modifiedTime |-> toISOString(mtime)]
  IN  DrivePatch(drive, existingId, MultipartBody(metadata, contents))

\* A download that drops a checklist whose own name is not the name of the
\* remote file.
downloadFileStrict(store, remoteFile, fileContents) ==
  IF WithExtension(fromJsonString(fileContents).name) # remoteFile.name
    THEN store
    ELSE saveChecklistFile(store, fromJsonString(fileContents), parseDate(remoteFile.modifiedTime))

\* _downloadFile(remoteFile) once files.get has answered with fileContents
downloadFile(store, remoteFile, fileContents) ==
  saveChecklistFile(store, fromJsonString(fileContents), parseDate(remoteFile.modifiedTime))

(***************************************************************************)
(* remoteFileMap: the index the pass builds from the listing.              *)
(***************************************************************************)
EmptyMap == <<>>

\* An index that keeps the entry it saw first.
remoteFileMapSetOnce(map, name, file) ==
  [n \in DOMAIN map \cup {name} |-> IF n \in DOMAIN map THEN map[n] ELSE file]

\* remoteFileMap.set(name, file)
remoteFileMapSet(map, name, file) ==
  [n \in DOMAIN map \cup {name} |-> IF n = name THEN file ELSE map[n]]

RECURSIVE remoteFileMapAfter(_, _)
remoteFileMapAfter(existingFiles, k) ==
  IF k = 0 THEN EmptyMap
  ELSE LET map == remoteFileMapAfter(existingFiles, k - 1)
           file == existingFiles[k]
       IN  IF Len(file.name) = 0 \/ file.id = NoId
             THEN map
             ELSE remoteFileMapSet(map, StripExtension(file.name), file)

remoteFileMapOf(existingFiles) == remoteFileMapAfter(existingFiles, Len(existingFiles))

(***************************************************************************)
(* State.                                                                  *)
(***************************************************************************)
VARIABLES
  state,          \* _stateSubject.value
  retryCount,     \* _retryCount
  token,          \* _token
  needsSync,      \* _needsSync
  notifiedInSync, \* a change was notified in state IN_SYNC, and no pass has started since
  syncInterval,   \* _syncInterval is set (the background timer is armed)
  timers,         \* intervals of window.setInterval that have not been cleared
  elapsed,        \* now - _lastSync in ms, as the armed timer will read it
  storedToken,    \* browser storage, key TOKEN_STORAGE_KEY
  apiReady,       \* _initApi has completed
  authPending,    \* token requests whose callback has not run yet
  local,          \* the local checklist store: name -> checklist file
  remote,         \* the remote folder: id -> drive file
  passes,         \* the synchronize() invocations that started a pass
  lastCall,       \* what the synchronize() call of the latest task did, if it made one
  calledBy,       \* who made that synchronize() call
  authFailures,   \* passes that failed for authorization in a row, up to MAX_RETRIES
  edits,          \* number of edits the user has made
  trip            \* one checklist on its way to the drive and back to a store

engineVars == <<state, retryCount, token, needsSync, syncInterval, elapsed>>
vars == <<state, retryCount, token, needsSync, notifiedInSync, syncInterval, timers, elapsed,
          storedToken,
          apiReady, authPending, local, remote, passes, lastCall, calledBy, authFailures,
          edits, trip>>

PassIds == 1..MaxPasses

(***************************************************************************)
(* One file operation of a pass (_synchronizeLocalFile).  st is where it   *)
(* waits: "create" / "patch" / "download" for the remote request in        *)
(* flight, "done" or "failed" once it has settled.                         *)
(***************************************************************************)
\* One call of _synchronizeLocalFile: where it stands (st), what it decided
\* (action), and its locals: the remote id, localModifiedTime and, while an
\* upload is going on, the serialized checklist.
NewOp == [st |-> "done", action |-> "none", id |-> NoId, mtime |-> 0, contents |-> EmptyContent]

TransferStates == {"create", "patch", "download"}
Waiting(op) == op.st \in TransferStates

(***************************************************************************)
(* One pass.  phase: "free" (slot never used), "listing", "transfers",     *)
(* "settled" (the success or failure handler has run).  pages counts the   *)
(* pages listed, listFailed tells that a listing request failed.  clean    *)
(* holds while the pass lists, if it started in IN_SYNC with no local      *)
(* change notified since the pass before it started, and none since.       *)
(* disturbed tells that the user or an operation of another pass has       *)
(* changed a store since the pass started, notified that a change of the   *)
(* local store has been notified since then.                               *)
(***************************************************************************)
FreePass ==
  [phase |-> "free", files |-> <<>>, nextPageToken |-> 0, localChecklistNames |-> {},
   remoteFileMap |-> EmptyMap, ops |-> <<>>, promise |-> "none", outcome |-> "none",
   pages |-> 0, listFailed |-> FALSE, clean |-> FALSE, disturbed |-> FALSE,
   notified |-> FALSE]

Active(pass) == pass.phase \in {"listing", "transfers"}
OpsWaiting(pass) == {n \in DOMAIN pass.ops : Waiting(pass.ops[n])}
Reusable(pass) == ~Active(pass) /\ OpsWaiting(pass) = {}

\* The slot a new pass takes.
FreeSlots == {p \in PassIds : Reusable(passes[p])}
NewSlot == CHOOSE p \in FreeSlots : \A q \in FreeSlots : p <= q

\* A settled pass without operations left is no longer followed once a new
\* pass starts.
Forgotten(ps) == [q \in PassIds |-> IF Reusable(ps[q]) THEN FreePass ELSE ps[q]]

\* What is kept of a settled pass: of a successful one its decisions, of a
\* failed one the operations that are still going on.
Kept(pass) ==
  IF pass.phase # "settled" \/ pass.listFailed
    THEN pass
  ELSE IF pass.outcome = "success"
    THEN [pass EXCEPT !.pages = 0]
  ELSE LET waiting == OpsWaiting(pass)
       IN  [pass EXCEPT !.pages = 0,
                        !.disturbed = FALSE,
                        !.notified = FALSE,
                        !.ops = [n \in DOMAIN pass.ops |->
                                   IF n \in waiting THEN pass.ops[n] ELSE NewOp],
                        !.remoteFileMap = [n \in DOMAIN pass.remoteFileMap \cap waiting |->
                                             pass.remoteFileMap[n]]]

\* The pass once its handler has run.
Settled(pass, outcome, promise) ==
  Kept([pass EXCEPT !.phase = "settled", !.outcome = outcome, !.promise = promise,
                    !.files = <<>>, !.nextPageToken = 0,
                    !.localChecklistNames = {}, !.clean = FALSE])

StartedPass(cur) ==
  [FreePass EXCEPT !.phase = "listing",
                   !.clean = (cur = IN_SYNC /\ ~needsSync),
                   !.localChecklistNames = listChecklistFiles(local),
                   !.promise = "pending"]

(***************************************************************************)
(* Initial states: a fresh page load.  The token of an earlier session may *)
(* be in browser storage; both stores hold what earlier sessions left.     *)
(***************************************************************************)
FileA(t, b) == ChecklistFile(<<"a">>, t, b)
FileB(t, b) == ChecklistFile(<<"b">>, t, b)
Uploaded(id, checklist) ==
  DriveFile(id, WithExtension(checklist.name), toISOString(localModifiedTime(checklist)),
            toJsonString(checklist))

\* One checklist that is in sync, and one that another device uploaded,
\* later than anything the user will type here.
SmallStores ==
  { [l |-> (<<"b">> :> FileB(1, "x")),
     r |-> (1 :> Uploaded(1, FileA(MaxTime + 1, "y"))) @@ (2 :> Uploaded(2, FileB(1, "x")))] }

\* Local and remote checklists in every order of their modification times,
\* local-only and remote-only ones.
RichStores ==
  { [l |-> (<<"a">> :> FileA(1, "x")) @@ (<<"b">> :> FileB(1, "y")),
     r |-> (1 :> Uploaded(1, FileA(2, "y")))],
    [l |-> (<<"b">> :> FileB(2, "y")),
     r |-> (1 :> Uploaded(1, FileA(2, "y"))) @@ (2 :> Uploaded(2, FileB(1, "x")))] }

\* A remote file that holds a checklist of another name, later than the local
\* checklist of its own name.
FileC(t, b) == ChecklistFile(<<"c">>, t, b)
RenamedStores ==
  { [l |-> (<<"a">> :> FileA(1, "x")),
     r |-> (1 :> DriveFile(1, WithExtension(<<"a">>), toISOString(MaxTime * MsPerSecond),
                           toJsonString(FileC(MaxTime, "y"))))] }

\* No checklist is being followed to the drive and back.
NoTrip == [stage |-> "idle", document |-> ChecklistFile(<<>>, 0, ""), drive |-> <<>>,
           store |-> <<>>]

\* The engine as constructed, before _initApi has run.
Constructed ==
  /\ state = DISCONNECTED
  /\ retryCount = 0
  /\ token = NoToken
  /\ needsSync = FALSE
  /\ notifiedInSync = FALSE
  /\ syncInterval = FALSE
  /\ timers = 0
  /\ elapsed = 0
  /\ apiReady = FALSE
  /\ authPending = 0
  /\ passes = [p \in PassIds |-> FreePass]
  /\ lastCall = "none"
  /\ calledBy = "none"
  /\ authFailures = 0
  /\ edits = 0

InitWith(stores) ==
  /\ Constructed
  /\ storedToken \in {NoToken} \cup Tokens
  /\ \E s \in stores : local = s.l /\ remote = s.r
  /\ trip = NoTrip

Init == InitWith(SmallStores)
InitStores == InitWith(RichStores)

InitRenamed == InitWith(RenamedStores)

(***************************************************************************)
(* The engine's procedures.  Each is called from the actions below with    *)
(* the values the caller has already assigned.                             *)
(***************************************************************************)
\* How long a pass has taken when the timer is armed after it: long enough
\* for the first tick to stay within the long interval and for the second to
\* pass it.  (Ticks after a shorter pass repeat the first of these.)
PassDurations == {LONG_SYNC_INTERVAL_MS - SHORT_SYNC_INTERVAL_MS}
ElapsedCap == LONG_SYNC_INTERVAL_MS + SHORT_SYNC_INTERVAL_MS

\* synchronize() without its first check, the one for a pass that is
\* _stopBackgroundSync()
stopBackgroundSync ==
  /\ syncInterval' = FALSE
  /\ timers' = IF syncInterval THEN timers - 1 ELSE timers

\* already going on.
synchronizeUngated(by, cur, auth, el) ==
  IF cur = DISCONNECTED
    THEN /\ auth < MaxAuth
         /\ lastCall' = "authenticate"
         /\ calledBy' = by
         /\ state' = cur
         /\ authPending' = auth + 1
         /\ elapsed' = el
         /\ UNCHANGED <<needsSync, notifiedInSync, syncInterval, timers, passes>>
  ELSE /\ FreeSlots # {}
       /\ lastCall' = "start"
       /\ calledBy' = by
       /\ state' = SYNCING
       /\ elapsed' = 0
       /\ stopBackgroundSync
       /\ needsSync' = FALSE
       /\ notifiedInSync' = FALSE
       /\ authPending' = auth
       /\ passes' = [Forgotten(passes) EXCEPT ![NewSlot] = StartedPass(cur)]

\* synchronize() without its second check, the one for a missing connection.
synchronizeUnconnected(by, cur, auth, el) ==
  IF cur = SYNCING
    THEN /\ lastCall' = "overlap"
         /\ calledBy' = by
         /\ state' = cur
         /\ authPending' = auth
         /\ elapsed' = el
         /\ UNCHANGED <<needsSync, notifiedInSync, syncInterval, timers, passes>>
  ELSE /\ FreeSlots # {}
       /\ lastCall' = "start"
       /\ calledBy' = by
       /\ state' = SYNCING
       /\ elapsed' = 0
       /\ stopBackgroundSync
       /\ needsSync' = FALSE
       /\ notifiedInSync' = FALSE
       /\ authPending' = auth
       /\ passes' = [Forgotten(passes) EXCEPT ![NewSlot] = StartedPass(cur)]

\* synchronize(), called by `by` when _stateSubject.value is cur, with auth
\* token requests outstanding and el the time since _lastSync.
synchronize(by, cur, auth, el) ==
  IF cur = SYNCING
    THEN /\ lastCall' = "overlap"
         /\ calledBy' = by
         /\ state' = cur
         /\ authPending' = auth
         /\ elapsed' = el
         /\ UNCHANGED <<needsSync, notifiedInSync, syncInterval, timers, passes>>
  ELSE IF cur = DISCONNECTED
    THEN /\ auth < MaxAuth
         /\ lastCall' = "authenticate"
         /\ calledBy' = by
         /\ state' = cur
         /\ authPending' = auth + 1
         /\ elapsed' = el
         /\ UNCHANGED <<needsSync, notifiedInSync, syncInterval, timers, passes>>
  ELSE /\ FreeSlots # {}
       /\ lastCall' = "start"
       /\ calledBy' = by
       /\ state' = SYNCING
       /\ elapsed' = 0
       /\ stopBackgroundSync
       /\ needsSync' = FALSE
       /\ notifiedInSync' = FALSE
       /\ authPending' = auth
       /\ passes' = [Forgotten(passes) EXCEPT ![NewSlot] = StartedPass(cur)]

isAuthFailure(status) == status = Unauthorized \/ status = Forbidden

\* A failure handler that gives up one failure later.
handleRequestFailureLenient(status) ==
  /\ retryCount < MaxRetryCount
  /\ retryCount' = retryCount + 1
  /\ authFailures' = IF ~isAuthFailure(status) THEN 0
                     ELSE IF authFailures < MAX_RETRIES THEN authFailures + 1
                     ELSE authFailures
  /\ IF isAuthFailure(status)
       THEN /\ token' = NoToken
            /\ IF retryCount + 1 <= MAX_RETRIES
                 THEN /\ authPending < MaxAuth
                      /\ state' = DISCONNECTED
                      /\ authPending' = authPending + 1
                 ELSE /\ state' = FAILED
                      /\ UNCHANGED authPending
       ELSE /\ state' = FAILED
            /\ UNCHANGED <<token, authPending>>
  /\ UNCHANGED <<syncInterval, timers, elapsed>>

\* _handleRequestFailure(reason)
handleRequestFailure(status) ==
  /\ retryCount < MaxRetryCount
  /\ retryCount' = retryCount + 1
  /\ authFailures' = IF ~isAuthFailure(status) THEN 0
                     ELSE IF authFailures < MAX_RETRIES THEN authFailures + 1
                     ELSE authFailures
  /\ IF isAuthFailure(status)
       THEN /\ token' = NoToken
            /\ IF retryCount + 1 < MAX_RETRIES
                 THEN /\ authPending < MaxAuth
                      /\ state' = DISCONNECTED
                      /\ authPending' = authPending + 1
                 ELSE /\ state' = FAILED
                      /\ UNCHANGED authPending
       ELSE /\ state' = FAILED
            /\ UNCHANGED <<token, authPending>>
  /\ UNCHANGED <<syncInterval, timers, elapsed>>

\* A failure handler that never throws.
promiseAlwaysResolved(status) == "resolved"

\* What the promise returned by synchronize() does after _handleRequestFailure.
promiseAfterFailure(status) == IF isAuthFailure(status) THEN "resolved" ELSE "rejected"

\* A scheduler that arms a timer whenever it is started.
startBackgroundSyncAgain ==
  /\ syncInterval' = TRUE
  /\ timers' = IF timers < MaxTimers THEN timers + 1 ELSE timers
  /\ IF syncInterval THEN UNCHANGED elapsed ELSE elapsed' \in PassDurations

\* _startBackgroundSync()
startBackgroundSync ==
  IF syncInterval
    THEN UNCHANGED <<syncInterval, timers, elapsed>>
    ELSE syncInterval' = TRUE /\ timers' = timers + 1 /\ elapsed' \in PassDurations

\* A success handler that leaves the retry counter alone.
syncSucceededKeepsCount ==
  /\ state' = IN_SYNC
  /\ retryCount' = retryCount
  /\ authFailures' = 0
  /\ startBackgroundSync
  /\ UNCHANGED <<token, authPending>>

\* The success handler of a pass.
syncSucceeded ==
  /\ state' = IN_SYNC
  /\ retryCount' = 0
  /\ authFailures' = 0
  /\ startBackgroundSync
  /\ UNCHANGED <<token, authPending>>

\* An operation of pass `except` has changed a store.
Disturb(ps, except, changed) ==
  [q \in PassIds |->
     IF changed /\ q # except /\ ps[q].phase # "free"
       THEN Kept([ps[q] EXCEPT !.disturbed = TRUE])
       ELSE ps[q]]

\* The user has changed the local store.
Edited(ps) ==
  [q \in PassIds |->
     IF ps[q].phase # "free"
       THEN Kept([ps[q] EXCEPT !.disturbed = TRUE, !.clean = FALSE, !.notified = TRUE])
       ELSE ps[q]]

AllDone(pass) == \A n \in DOMAIN pass.ops : pass.ops[n].st = "done"

\* A pass whose handlers never run when its last operation resolves.
settleSilent(p, np, failed, status, changed) ==
  IF passes[p].phase = "settled" \/ ~failed
    THEN /\ passes' = Disturb([passes EXCEPT ![p] = Kept(np)], p, changed)
         /\ UNCHANGED <<state, retryCount, authFailures, token, authPending, syncInterval, timers, elapsed>>
  ELSE /\ handleRequestFailure(status)
       /\ passes' = Disturb([passes EXCEPT ![p] =
                       Settled(np, "failure", promiseAfterFailure(status))],
                       p, changed)

\* A pass that is declared successful by the first operation that resolves.
settleFirstDone(p, np, failed, status, changed) ==
  IF passes[p].phase = "settled" \/ (~failed /\ np.phase # "transfers")
    THEN /\ passes' = Disturb([passes EXCEPT ![p] = Kept(np)], p, changed)
         /\ UNCHANGED <<state, retryCount, authFailures, token, authPending, syncInterval, timers, elapsed>>
  ELSE IF failed
    THEN /\ handleRequestFailure(status)
         /\ passes' = Disturb([passes EXCEPT ![p] =
                         Settled(np, "failure", promiseAfterFailure(status))],
                         p, changed)
  ELSE /\ syncSucceeded
       /\ passes' = Disturb([passes EXCEPT ![p] =
                       Settled(np, "success", "resolved")], p, changed)

\* What follows one step of pass p that leaves it as np: Promise.all rejects
\* on the first failure and resolves once every operation has resolved; the
\* handlers run once, and what settles later is ignored.
settle(p, np, failed, status, changed) ==
  IF passes[p].phase = "settled" \/ (~failed /\ ~(np.phase = "transfers" /\ AllDone(np)))
    THEN /\ passes' = Disturb([passes EXCEPT ![p] = Kept(np)], p, changed)
         /\ UNCHANGED <<state, retryCount, authFailures, token, authPending, syncInterval, timers, elapsed>>
  ELSE IF failed
    THEN /\ handleRequestFailure(status)
         /\ passes' = Disturb([passes EXCEPT ![p] =
                         Settled(np, "failure", promiseAfterFailure(status))],
                         p, changed)
  ELSE /\ syncSucceeded
       /\ passes' = Disturb([passes EXCEPT ![p] =
                       Settled(np, "success", "resolved")], p, changed)

(***************************************************************************)
(* Actions of the application and its environment.                         *)
(***************************************************************************)
\* _initApi() completes: the scripts are loaded, the stored token is read.
InitApi ==
  /\ ~apiReady
  /\ apiReady' = TRUE
  /\ token' = storedToken
  /\ IF storedToken # NoToken
       THEN synchronize("init", NEEDS_SYNC, authPending, elapsed)
       ELSE /\ lastCall' = "none" /\ calledBy' = "none"
            /\ UNCHANGED <<state, needsSync, notifiedInSync, syncInterval, timers, elapsed, authPending, passes>>
  /\ UNCHANGED <<retryCount, authFailures, storedToken, local, remote, edits, trip>>

\* The application calls synchronize() (the user connects, or asks to sync).
UserSynchronize ==
  /\ apiReady
  /\ synchronize("user", state, authPending, elapsed)
  /\ UNCHANGED <<retryCount, authFailures, token, storedToken, apiReady, local, remote, edits, trip>>

\* The same, by an application that waits for the answer to a token request
\* before it calls again.
UserSynchronizeIdle ==
  /\ authPending = 0
  /\ UserSynchronize

\* A token callback that stores the token and waits for the next call of
\* synchronize().
AuthCallbackTokenIdle ==
  /\ authPending > 0
  /\ \E t \in Tokens :
       /\ token' = t
       /\ storedToken' = t
  /\ state' = NEEDS_SYNC
  /\ authPending' = authPending - 1
  /\ lastCall' = "none" /\ calledBy' = "none"
  /\ UNCHANGED <<retryCount, authFailures, needsSync, notifiedInSync, syncInterval, timers, elapsed, apiReady,
                 local, remote, passes, edits, trip>>

\* The token client calls back with an access token.
AuthCallbackToken ==
  /\ authPending > 0
  /\ \E t \in Tokens :
       /\ token' = t
       /\ storedToken' = t
  /\ synchronize("auth", NEEDS_SYNC, authPending - 1, elapsed)
  /\ UNCHANGED <<retryCount, authFailures, apiReady, local, remote, edits, trip>>

\* A callback that asks for a token again when it gets none.
AuthCallbackNoTokenAgain ==
  /\ authPending > 0
  /\ authPending' = authPending
  /\ lastCall' = "authenticate" /\ calledBy' = "auth"
  /\ UNCHANGED <<state, retryCount, authFailures, token, needsSync, notifiedInSync, syncInterval, timers, elapsed, storedToken,
                 apiReady, local, remote, passes, edits, trip>>

\* The token client calls back without an access token.
AuthCallbackNoToken ==
  /\ authPending > 0
  /\ authPending' = authPending - 1
  /\ lastCall' = "none" /\ calledBy' = "none"
  /\ UNCHANGED <<state, retryCount, authFailures, token, needsSync, notifiedInSync, syncInterval, timers, elapsed, storedToken,
                 apiReady, local, remote, passes, edits, trip>>

\* A timer callback that synchronizes for local changes only.
TickOnlyWhenNeeded ==
  /\ timers > 0
  /\ LET now == IF elapsed + SHORT_SYNC_INTERVAL_MS > ElapsedCap
                  THEN ElapsedCap ELSE elapsed + SHORT_SYNC_INTERVAL_MS
     IN  IF needsSync
           THEN synchronize("timer", state, authPending, now)
           ELSE /\ elapsed' = now
                /\ lastCall' = "none" /\ calledBy' = "none"
                /\ UNCHANGED <<state, needsSync, notifiedInSync, syncInterval, timers, authPending, passes>>
  /\ UNCHANGED <<retryCount, authFailures, token, storedToken, apiReady, local, remote, edits, trip>>

\* A timer callback that synchronizes as soon as the long interval is reached.
TickEager ==
  /\ timers > 0
  /\ LET now == IF elapsed + SHORT_SYNC_INTERVAL_MS > ElapsedCap
                  THEN ElapsedCap ELSE elapsed + SHORT_SYNC_INTERVAL_MS
     IN  IF needsSync \/ now >= LONG_SYNC_INTERVAL_MS
           THEN synchronize("timer", state, authPending, now)
           ELSE /\ elapsed' = now
                /\ lastCall' = "none" /\ calledBy' = "none"
                /\ UNCHANGED <<state, needsSync, notifiedInSync, syncInterval, timers, authPending, passes>>
  /\ UNCHANGED <<retryCount, authFailures, token, storedToken, apiReady, local, remote, edits, trip>>

\* The background timer fires (window.setInterval callback).
Tick ==
  /\ timers > 0
  /\ LET now == IF elapsed + SHORT_SYNC_INTERVAL_MS > ElapsedCap
                  THEN ElapsedCap ELSE elapsed + SHORT_SYNC_INTERVAL_MS
     IN  IF needsSync \/ now > LONG_SYNC_INTERVAL_MS
           THEN synchronize("timer", state, authPending, now)
           ELSE /\ elapsed' = now
                /\ lastCall' = "none" /\ calledBy' = "none"
                /\ UNCHANGED <<state, needsSync, notifiedInSync, syncInterval, timers, authPending, passes>>
  /\ UNCHANGED <<retryCount, authFailures, token, storedToken, apiReady, local, remote, edits, trip>>

\* A notification handler that asks for a pass whatever the state is.
onChecklistsUpdatedAlways ==
  /\ needsSync' = TRUE
  /\ notifiedInSync' = (notifiedInSync \/ state = IN_SYNC)
  /\ state' = NEEDS_SYNC

\* _onChecklistsUpdated()
onChecklistsUpdated ==
  /\ needsSync' = TRUE
  /\ notifiedInSync' = (notifiedInSync \/ state = IN_SYNC)
  /\ state' = IF state = IN_SYNC THEN NEEDS_SYNC ELSE state

\* The user saves one of the checklists `names` in the editor; the store
\* notifies its subscribers.
LocalEditOf(names) ==
  /\ apiReady
  /\ edits < MaxEdits
  /\ \E n \in names :
       /\ n \in DOMAIN local => MaxTime > local[n].modifiedTime
       /\ local' = saveChecklistFile(local, ChecklistFile(n, 0, EditedBody),
                                     MaxTime * MsPerSecond)
  /\ edits' = edits + 1
  /\ onChecklistsUpdated
  /\ passes' = Edited(passes)
  /\ lastCall' = "none" /\ calledBy' = "none"
  /\ UNCHANGED <<retryCount, authFailures, token, syncInterval, timers, elapsed, storedToken, apiReady,
                 authPending, remote, trip>>

\* The user saves a new or an existing checklist.
LocalEdit == LocalEditOf(LocalNames)

\* The user saves an existing checklist.
LocalEditKnown == LocalEditOf(DOMAIN local)

\* The user deletes checklist n; the store notifies its subscribers.
LocalDelete ==
  /\ apiReady
  /\ edits < MaxEdits
  /\ \E n \in DOMAIN local :
       local' = [m \in DOMAIN local \ {n} |-> local[m]]
  /\ edits' = edits + 1
  /\ onChecklistsUpdated
  /\ passes' = Edited(passes)
  /\ lastCall' = "none" /\ calledBy' = "none"
  /\ UNCHANGED <<retryCount, authFailures, token, syncInterval, timers, elapsed, storedToken, apiReady,
                 authPending, remote, trip>>

(***************************************************************************)
(* Steps of a pass.                                                        *)
(***************************************************************************)
passFrame ==
  /\ lastCall' = "none" /\ calledBy' = "none"
  /\ UNCHANGED <<needsSync, notifiedInSync, storedToken, apiReady, edits, trip>>

\* A decision that uploads when the two times are equal.
decideTies(checklist, hasRemote, remoteFile) ==
  IF \/ ~hasRemote
     \/ remoteFile.id = NoId
     \/ localModifiedTime(checklist) >= parseDate(remoteFile.modifiedTime)
    THEN "upload"
  ELSE "download"

\* The decision of _synchronizeLocalFile for a checklist that exists locally.
decide(checklist, hasRemote, remoteFile) ==
  IF \/ ~hasRemote
     \/ remoteFile.id = NoId
     \/ localModifiedTime(checklist) > parseDate(remoteFile.modifiedTime)
    THEN "upload"
  ELSE IF localModifiedTime(checklist) < parseDate(remoteFile.modifiedTime)
    THEN "download"
  ELSE "none"

\* An engine that downloads whatever the drive holds, a checklist deleted
\* from the local store included.
synchronizeLocalFileRestoring(pass, name) ==
  IF name \in DOMAIN pass.remoteFileMap /\ pass.remoteFileMap[name].id # NoId
    THEN [NewOp EXCEPT !.st = "download", !.action = "download",
                       !.id = pass.remoteFileMap[name].id]
    ELSE NewOp

\* _synchronizeLocalFile(name, remoteFile) up to its first remote request:
\* getChecklistFile reads browser storage and answers within the same task.
synchronizeLocalFile(pass, name) ==
  LET hasRemote == name \in DOMAIN pass.remoteFileMap
      remoteFile == IF hasRemote THEN pass.remoteFileMap[name]
                    ELSE ListedFile(DriveFile(NoId, <<>>, EPOCH, EmptyContent))
  IN  IF name \notin DOMAIN local
        THEN NewOp
      ELSE LET checklist == local[name]
               action == decide(checklist, hasRemote, remoteFile)
           IN  IF action = "upload"
                 THEN [st |-> IF remoteFile.id = NoId THEN "create" ELSE "patch",
                       action |-> action,
                       id |-> remoteFile.id,
                       mtime |-> localModifiedTime(checklist),
                       contents |-> toJsonString(checklist)]
               ELSE [NewOp EXCEPT !.st = IF action = "download" THEN "download" ELSE "done",
                                  !.action = action,
                                  !.id = remoteFile.id,
                                  !.mtime = localModifiedTime(checklist)]

\* The operations the pass starts once both listings are there.
syncOperations(pass) ==
  [n \in pass.localChecklistNames |-> synchronizeLocalFile(pass, n)]

\* One files.list request of _listFiles is answered with a page.
ListPage(p) ==
  /\ passes[p].phase = "listing"
  /\ \E size \in 1..MaxPageSize :
       \* every intermediate value of the request is computed once
       \E listing \in {DriveList(remote, CHECKLIST_MIME_TYPE)} :
       \E to \in {IF passes[p].nextPageToken + size < Len(listing)
                    THEN passes[p].nextPageToken + size ELSE Len(listing)} :
       \E files \in {passes[p].files \o SubSeq(listing, passes[p].nextPageToken + 1, to)} :
       \E listed \in {[passes[p] EXCEPT !.files = files, !.nextPageToken = 0,
                                        !.pages = passes[p].pages + 1,
                                        !.phase = "transfers",
                                        !.clean = FALSE,
                                        !.remoteFileMap = remoteFileMapOf(files)]} :
       \E np \in {IF to < Len(listing)
                    THEN [passes[p] EXCEPT !.files = files, !.nextPageToken = to,
                                           !.pages = passes[p].pages + 1]
                    ELSE [listed EXCEPT !.ops = syncOperations(listed)]} :
         settle(p, np, FALSE, NoStatus, FALSE)
  /\ UNCHANGED <<local, remote>>
  /\ passFrame

\* A listing that takes a failed request for the end of the listing.
ListFailPartial(p) ==
  /\ passes[p].phase = "listing"
  /\ LET listed == [passes[p] EXCEPT !.nextPageToken = 0,
                                     !.listFailed = TRUE,
                                     !.phase = "transfers",
                                     !.clean = FALSE,
                                     !.remoteFileMap = remoteFileMapOf(passes[p].files)]
     IN  settle(p, [listed EXCEPT !.ops = syncOperations(listed)], FALSE, NoStatus, FALSE)
  /\ UNCHANGED <<local, remote>>
  /\ passFrame

\* One files.list request is answered with the error `status`.
ListFailWith(p, status) ==
  /\ passes[p].phase = "listing"
  /\ settle(p, [passes[p] EXCEPT !.listFailed = TRUE], TRUE, status, FALSE)
  /\ UNCHANGED <<local, remote>>
  /\ passFrame

\* One files.list request fails.
ListFail(p) == \E status \in Statuses : ListFailWith(p, status)

\* files.create of _uploadFile succeeds; the PATCH request follows.
CreateOk(p, n) ==
  /\ n \in DOMAIN passes[p].ops
  /\ passes[p].ops[n].st = "create"
  /\ Cardinality(DOMAIN remote) < MaxRemote
  /\ LET id == Cardinality(DOMAIN remote) + 1
         np == [passes[p] EXCEPT !.ops[n].st = "patch", !.ops[n].id = id]
     IN  /\ remote' = DriveCreate(remote, id, WithExtension(n), EPOCH)
         /\ settle(p, np, FALSE, NoStatus, TRUE)
  /\ UNCHANGED local
  /\ passFrame

\* The multipart PATCH of _uploadFile succeeds.
PatchOk(p, n) ==
  /\ n \in DOMAIN passes[p].ops
  /\ passes[p].ops[n].st = "patch"
  /\ LET op == passes[p].ops[n]
         np == [passes[p] EXCEPT !.ops[n].st = "done", !.ops[n].contents = EmptyContent]
     IN  /\ remote' = uploadFile(remote, op.id, op.mtime, op.contents)
         /\ settle(p, np, FALSE, NoStatus, remote' # remote)
  /\ UNCHANGED local
  /\ passFrame

\* files.get of _downloadFile succeeds; the checklist is parsed and saved.
DownloadOk(p, n) ==
  /\ n \in DOMAIN passes[p].ops
  /\ passes[p].ops[n].st = "download"
  /\ LET op == passes[p].ops[n]
         remoteFile == passes[p].remoteFileMap[n]
         fileContents == remote[op.id].content
     IN  IF isJson(fileContents)
           THEN /\ local' = downloadFile(local, remoteFile, fileContents)
                /\ settle(p, [passes[p] EXCEPT !.ops[n].st = "done"], FALSE, NoStatus,
                          local' # local)
           ELSE /\ UNCHANGED local
                /\ settle(p, [passes[p] EXCEPT !.ops[n].st = "failed"], TRUE, NoStatus, FALSE)
  /\ UNCHANGED remote
  /\ passFrame

\* A failing request that leaves an empty entry on the drive all the same.
RequestFailWithEntry(p, n, status) ==
  /\ n \in DOMAIN passes[p].ops
  /\ passes[p].ops[n].st \in TransferStates
  /\ Cardinality(DOMAIN remote) < MaxRemote
  /\ settle(p, [passes[p] EXCEPT !.ops[n].st = "failed"], TRUE, status, FALSE)
  /\ remote' = DriveCreate(remote, Cardinality(DOMAIN remote) + 1, WithExtension(n), EPOCH)
  /\ UNCHANGED local
  /\ passFrame

\* A create, PATCH or get request is answered with the error `status`.
RequestFailWith(p, n, status) ==
  /\ n \in DOMAIN passes[p].ops
  /\ passes[p].ops[n].st \in TransferStates
  /\ settle(p, [passes[p] EXCEPT !.ops[n].st = "failed"], TRUE, status, FALSE)
  /\ UNCHANGED <<local, remote>>
  /\ passFrame

\* A create, PATCH or get request fails.
RequestFail(p, n) == \E status \in Statuses : RequestFailWith(p, n, status)

PassStep ==
  \/ \E p \in PassIds : ListPage(p)
  \/ \E p \in PassIds : ListFail(p)
  \/ \E p \in PassIds, n \in LocalNames : CreateOk(p, n)
  \/ \E p \in PassIds, n \in LocalNames : PatchOk(p, n)
  \/ \E p \in PassIds, n \in LocalNames : DownloadOk(p, n)
  \/ \E p \in PassIds, n \in LocalNames : RequestFail(p, n)

Next ==
  \/ InitApi
  \/ UserSynchronize
  \/ AuthCallbackToken
  \/ AuthCallbackNoToken
  \/ Tick
  \/ LocalEdit
  \/ LocalDelete
  \/ PassStep

Spec == Init /\ [][Next]_vars

\* The same engine with a timer that keeps firing while it is armed
\* (window.setInterval).
SpecTimer == Init /\ [][Next]_vars /\ WF_vars(Tick)

\* The requests of pass p: each is answered, with a page, a result or an
\* error.
PassStepOf(p) ==
  \/ ListPage(p)
  \/ ListFail(p)
  \/ \E n \in LocalNames : CreateOk(p, n) \/ PatchOk(p, n) \/ DownloadOk(p, n) \/ RequestFail(p, n)

\* A local-only checklist to upload and a remote checklist, later than its
\* local copy, to download.
AnsweredStores ==
  { [l |-> (<<"a">> :> FileA(1, "x")) @@ (<<"b">> :> FileB(1, "y")),
     r |-> (1 :> Uploaded(1, FileA(2, "y")))] }

InitAnswered == InitWith(AnsweredStores)

\* An application that leaves its checklists alone while the engine runs.
NextAnswered ==
  \/ InitApi
  \/ UserSynchronizeIdle
  \/ AuthCallbackToken
  \/ AuthCallbackNoToken
  \/ Tick
  \/ PassStep

\* The engine with a drive that answers every request of every pass.
SpecAnswered ==
  InitAnswered /\ [][NextAnswered]_vars /\ \A p \in PassIds : WF_vars(PassStepOf(p))

\* The engine over richer stores, with an application that does not call
\* synchronize() while a token request is outstanding.
NextStores ==
  \/ InitApi
  \/ UserSynchronizeIdle
  \/ AuthCallbackToken
  \/ AuthCallbackNoToken
  \/ Tick
  \/ LocalEditKnown
  \/ LocalDelete
  \/ PassStep

SpecStores == InitStores /\ [][NextStores]_vars

\* The engine over a drive with a file whose checklist has another name.
SpecRenamed == InitRenamed /\ [][NextStores]_vars

(***************************************************************************)
(* The listing and the index alone: a signed-in engine with one local      *)
(* checklist, over every small remote folder.                              *)
(***************************************************************************)
IndexNames == {WithExtension(<<"a">>), WithExtension(<<"b">>)}
IndexTimes == {toISOString(t * MsPerSecond) : t \in 1..MaxRemote}

\* The folders with entries 1..k, any names and times.
IndexRemotes ==
  UNION { [1..k -> [id : {NoId}, name : IndexNames, mimeType : {CHECKLIST_MIME_TYPE},
                    modifiedTime : IndexTimes, content : {EmptyContent}]] :
          k \in 0..MaxRemote }

InitIndex ==
  /\ Constructed
  /\ storedToken \in Tokens
  /\ local = (<<"c">> :> ChecklistFile(<<"c">>, 1, "x"))
  /\ \E drive \in IndexRemotes : remote = [i \in DOMAIN drive |-> [drive[i] EXCEPT !.id = i]]
  /\ trip = NoTrip

NextIndex ==
  \/ InitApi
  \/ \E p \in PassIds : ListPage(p)
  \/ \E p \in PassIds : ListFail(p)

SpecIndex == InitIndex /\ [][NextIndex]_vars

(***************************************************************************)
(* One checklist on its way to the drive and back: _uploadFile on one      *)
(* device, _downloadFile on another one, for every small checklist.        *)
(***************************************************************************)
TripDocuments ==
  {ChecklistFile(n, t, b) : n \in LocalNames, t \in 0..(MaxTime + 1),
                            b \in Bodies \cup {EditedBody}}

\* The store of the downloading device: empty, or with an older version.
TripStores(document) ==
  {<<>>, (document.name :> ChecklistFile(document.name, 0, EditedBody))}

InitRoundTrip ==
  /\ Constructed
  /\ storedToken = NoToken
  /\ local = <<>>
  /\ remote = <<>>
  /\ \E document \in TripDocuments :
       \E store \in TripStores(document) :
         trip = [stage |-> "saved", document |-> document, drive |-> <<>>, store |-> store]

tripFrame ==
  UNCHANGED <<state, retryCount, authFailures, token, needsSync, notifiedInSync, syncInterval, timers, elapsed, storedToken,
              apiReady, authPending, local, remote, passes, lastCall, calledBy, edits>>

\* _uploadFile without an existing id: files.create
TripCreate ==
  /\ trip.stage = "saved"
  /\ trip' = [trip EXCEPT !.stage = "created",
                          !.drive = DriveCreate(trip.drive, 1,
                                                WithExtension(trip.document.name), EPOCH)]
  /\ tripFrame

\* _uploadFile: the multipart PATCH
TripUpload ==
  /\ trip.stage = "created"
  /\ trip' = [trip EXCEPT !.stage = "uploaded",
                          !.drive = uploadFile(trip.drive, 1,
                                               localModifiedTime(trip.document),
                                               toJsonString(trip.document))]
  /\ tripFrame

\* _downloadFile of the listed entry on the other device
TripDownload ==
  /\ trip.stage = "uploaded"
  /\ LET remoteFile == DriveList(trip.drive, CHECKLIST_MIME_TYPE)[1]
     IN  trip' = [trip EXCEPT !.stage = "downloaded",
                              !.store = downloadFile(trip.store, remoteFile,
                                                     trip.drive[remoteFile.id].content)]
  /\ tripFrame

NextRoundTrip ==
  \/ TripCreate
  \/ TripUpload
  \/ TripDownload

SpecRoundTrip == InitRoundTrip /\ [][NextRoundTrip]_vars

(***************************************************************************)
(* Names on their way to the drive and back into the index: two checklists *)
(* of any small names, names that hold the extension themselves included,  *)
(* are created on the drive and the drive is listed and indexed.           *)
(***************************************************************************)
NamingTokens == {"a", "b", CHECKLIST_EXTENSION}
NamingNames == UNION {[1..k -> NamingTokens] : k \in 1..MaxNameLen}

InitNaming ==
  /\ Constructed
  /\ storedToken = NoToken
  /\ local = <<>>
  /\ remote = <<>>
  /\ \E first \in NamingNames, second \in NamingNames :
       trip = [stage |-> "named", names |-> <<first, second>>, drive |-> <<>>,
               index |-> EmptyMap]

\* _uploadFile(name + CHECKLIST_EXTENSION, undefined, ...): files.create
NamingCreate ==
  /\ trip.stage = "named"
  /\ \E id \in 1..2 :
       /\ id = Cardinality(DOMAIN trip.drive) + 1
       /\ trip' = [trip EXCEPT !.drive = DriveCreate(trip.drive, id,
                                           WithExtension(trip.names[id]),
                                           toISOString(id * MsPerSecond)),
                               !.stage = IF id = 2 THEN "created" ELSE "named"]
  /\ tripFrame

\* The listing, and the index built of it.
NamingIndex ==
  /\ trip.stage = "created"
  /\ trip' = [trip EXCEPT !.stage = "indexed",
                          !.index = remoteFileMapOf(DriveList(trip.drive, CHECKLIST_MIME_TYPE))]
  /\ tripFrame

NextNaming ==
  \/ NamingCreate
  \/ NamingIndex

SpecNaming == InitNaming /\ [][NextNaming]_vars

(***************************************************************************)
(* Properties.                                                             *)
(***************************************************************************)
ActivePasses == {p \in PassIds : Active(passes[p])}

\* C1: in every reachable state at most one pass has started and not yet
\* reached its success or failure handler.
AtMostOnePassActive == Cardinality(ActivePasses) <= 1

\* C2: whenever the state is not SYNCING, no create, upload or download
\* started by the engine is still in flight.
NoTransferUnlessSyncing ==
  state # SYNCING => \A p \in PassIds : OpsWaiting(passes[p]) = {}

\* C3: synchronize() called while the state is SYNCING returns normally and
\* changes nothing: not the state, the pending-changes flag, the retry
\* counter, the last-sync time or the timer; it starts no pass and no token
\* request and leaves both stores alone.
SynchronizeWhileSyncingIsNoOp ==
  [][/\ (state = SYNCING /\ UserSynchronize) => lastCall' = "overlap"
     /\ lastCall' = "overlap" =>
          /\ state = SYNCING
          /\ UNCHANGED <<state, retryCount, authFailures, token, needsSync, notifiedInSync, syncInterval, timers, elapsed,
                         storedToken, apiReady, authPending, local, remote, passes>>]_vars

\* C3, its case: synchronize() has been called during a pass.
SynchronizeCalledWhileSyncing ==
  /\ lastCall = "overlap"
  /\ state = SYNCING
  /\ ActivePasses # {}

\* The action a pass has taken for name n.
ActionTaken(pass, n) == IF n \in DOMAIN pass.ops THEN pass.ops[n].action ELSE "none"

\* Pass p takes its decisions in this step.
Decides(p) ==
  /\ passes[p].phase = "listing"
  /\ passes'[p].phase \in {"transfers", "settled"}
  /\ ~passes'[p].listFailed

\* C4: for every name found locally or remotely when a pass decides, the
\* action is upload iff the remote is absent or the local time is later,
\* download iff the remote is present and the local is absent or older, and
\* none iff both are present with equal times.
DecisionsFollowTheTable ==
  [][\A p \in PassIds :
       Decides(p) =>
         LET map == passes'[p].remoteFileMap
         IN  \A n \in (passes[p].localChecklistNames \cap DOMAIN local) \cup DOMAIN map :
               LET hasLocal == n \in DOMAIN local
                   hasRemote == n \in DOMAIN map
                   localTime == localModifiedTime(local[n])
                   remoteTime == parseDate(map[n].modifiedTime)
                   taken == ActionTaken(passes'[p], n)
               IN  /\ taken = "upload" <=>
                        (~hasRemote \/ (hasLocal /\ localTime > remoteTime))
                   /\ taken = "download" <=>
                        (hasRemote /\ (~hasLocal \/ localTime < remoteTime))
                   /\ taken = "none" <=>
                        (hasLocal /\ hasRemote /\ localTime = remoteTime)]_vars

\* A pass that has succeeded, with no store changed by anything else since
\* it started.
Undisturbed(pass) == pass.outcome = "success" /\ ~pass.disturbed

\* C5: after a successful pass, every document that was in the remote index
\* and had no local counterpart at the start of the pass is in the local
\* store, with the remote modification time.
RemoteOnlyDocumentsAreDownloaded ==
  \A p \in PassIds :
    Undisturbed(passes[p]) =>
      \A n \in DOMAIN passes[p].remoteFileMap \ DOMAIN passes[p].ops :
        /\ n \in DOMAIN local
        /\ localModifiedTime(local[n]) = parseDate(passes[p].remoteFileMap[n].modifiedTime)

\* C6: after a successful pass with no other change to either store, for
\* every name that was on both sides, both stores hold the contents and the
\* time of the side that was strictly later; with equal times nothing was
\* transferred and both sides are as they were.
LastWriterWins ==
  \A p \in PassIds :
    Undisturbed(passes[p]) =>
      \A n \in DOMAIN passes[p].ops \cap DOMAIN passes[p].remoteFileMap :
        LET op == passes[p].ops[n]
            listed == passes[p].remoteFileMap[n]
            localTime == op.mtime
            remoteTime == parseDate(listed.modifiedTime)
        IN  /\ n \in DOMAIN local
            /\ listed.id \in DOMAIN remote
            /\ localTime > remoteTime =>
                 /\ localModifiedTime(local[n]) = localTime
                 /\ parseDate(remote[listed.id].modifiedTime) = localTime
                 /\ remote[listed.id].content = toJsonString(local[n])
            /\ localTime < remoteTime =>
                 /\ localModifiedTime(local[n]) = remoteTime
                 /\ remote[listed.id].modifiedTime = listed.modifiedTime
                 /\ toJsonString(local[n]) = remote[listed.id].content
            /\ localTime = remoteTime =>
                 /\ op.action = "none"
                 /\ localModifiedTime(local[n]) = localTime
                 /\ remote[listed.id].modifiedTime = listed.modifiedTime

\* C6, its case: a pass has succeeded undisturbed after it downloaded a
\* checklist that was later on the drive.
LaterRemoteSideWon ==
  \E p \in PassIds :
    /\ Undisturbed(passes[p])
    /\ \E n \in DOMAIN passes[p].ops \cap DOMAIN passes[p].remoteFileMap :
         /\ passes[p].ops[n].action = "download"
         /\ passes[p].ops[n].mtime < parseDate(passes[p].remoteFileMap[n].modifiedTime)

\* C7: a pass that starts after a successful pass, with no change made by
\* the user since that pass started, decides none for every name.
NextPassDecidesNone ==
  [][\A p \in PassIds :
       (Decides(p) /\ passes[p].clean) =>
         \A n \in DOMAIN passes'[p].ops : passes'[p].ops[n].action = "none"]_vars

\* C8: a checklist that is uploaded and then downloaded from the resulting
\* remote entry is stored with the contents and the modification time of
\* the checklist that was uploaded.
RoundTripIsIdentity ==
  trip.stage = "downloaded" =>
    /\ trip.document.name \in DOMAIN trip.store
    /\ trip.store[trip.document.name] = trip.document
    /\ toJsonString(trip.store[trip.document.name]) = toJsonString(trip.document)
    /\ localModifiedTime(trip.store[trip.document.name]) = localModifiedTime(trip.document)

\* C8, its case: a checklist with a time and contents of its own has been
\* uploaded and downloaded again.
RoundTripMade ==
  /\ trip.stage = "downloaded"
  /\ trip.document.modifiedTime = MaxTime + 1
  /\ trip.document.body # EditedBody
  /\ isJson(trip.drive[1].content)

\* The listing is in ascending order of modification time.
Ascending(files) ==
  \A i \in 1..(Len(files) - 1) :
    parseDate(files[i].modifiedTime) <= parseDate(files[i + 1].modifiedTime)

\* Where the entries of logical name n are in the listing.
ListedAt(files, n) == {i \in 1..Len(files) : StripExtension(files[i].name) = n}

\* C9: when the concatenated pages are in ascending order of modification
\* time, the index has one entry for each logical name listed and no other,
\* and that entry is the last one listed with the name, which no entry of
\* the name is later than.
IndexKeepsLastListed ==
  \A p \in PassIds :
    (passes[p].phase = "transfers" /\ Ascending(passes[p].files)) =>
      LET files == passes[p].files
          map == passes[p].remoteFileMap
      IN  /\ DOMAIN map = {StripExtension(files[i].name) : i \in 1..Len(files)}
          /\ \A n \in DOMAIN map :
               \E i \in ListedAt(files, n) :
                 /\ map[n] = files[i]
                 /\ \A j \in ListedAt(files, n) :
                      /\ j <= i
                      /\ parseDate(files[j].modifiedTime) <= parseDate(map[n].modifiedTime)

\* C9, its case: three pages of one entry each, all of one name, with
\* increasing times.
ThreePagesOneName ==
  \E p \in PassIds :
    /\ passes[p].phase = "transfers"
    /\ passes[p].pages = 3
    /\ Len(passes[p].files) = 3
    /\ passes[p].files[1].name = passes[p].files[2].name
    /\ passes[p].files[2].name = passes[p].files[3].name
    /\ parseDate(passes[p].files[1].modifiedTime) < parseDate(passes[p].files[2].modifiedTime)
    /\ parseDate(passes[p].files[2].modifiedTime) < parseDate(passes[p].files[3].modifiedTime)

\* C10: when a request of the listing fails, the pass ends in its failure
\* handling: no index is built from the pages already listed, no operation
\* on a file is started, and neither store is touched.
ListingNeverFailsPartially ==
  [][\A p \in PassIds :
       (passes[p].phase = "listing" /\ passes'[p].listFailed) =>
         /\ passes'[p].phase = "settled"
         /\ passes'[p].outcome = "failure"
         /\ passes'[p].remoteFileMap = EmptyMap
         /\ passes'[p].ops = <<>>
         /\ retryCount' = retryCount + 1
         /\ state' \in {DISCONNECTED, FAILED}
         /\ UNCHANGED <<local, remote>>]_vars

\* C10, its case: the listing has failed after a page had been listed.
ListingFailedAfterAPage ==
  \E p \in PassIds :
    /\ passes[p].listFailed
    /\ passes[p].pages >= 1

AuthStatuses == {status \in Statuses : isAuthFailure(status)}

\* Pass p, not yet settled, fails in this step with the error `status`.
FailsWith(p, status) ==
  /\ Active(passes[p])
  /\ \/ ListFailWith(p, status)
     \/ \E n \in LocalNames : RequestFailWith(p, n, status)

AuthFailureReauthenticates ==
  [][/\ \A p \in PassIds, status \in AuthStatuses :
          (FailsWith(p, status) /\ retryCount + 1 < MAX_RETRIES) =>
            /\ token' = NoToken
            /\ state' = DISCONNECTED
            /\ authPending' = authPending + 1
            /\ retryCount' = retryCount + 1
     /\ AuthCallbackToken => calledBy' = "auth"
     /\ calledBy' = "auth" =>
          /\ lastCall' = "start"
          /\ state' = SYNCING
          /\ token' \in Tokens
          /\ storedToken' = token'
          /\ authPending' = authPending - 1
          /\ \E p \in PassIds : passes'[p].phase = "listing" /\ passes'[p].pages = 0]_vars

\* C12, its case: after a pass has failed for authorization, the token
\* callback has started a new pass.
PassStartedByReauthentication ==
  /\ calledBy = "auth"
  /\ lastCall = "start"
  /\ state = SYNCING
  /\ authFailures >= 1
  /\ retryCount < MAX_RETRIES

\* C13: a pass that fails with an error that is no authorization error sets
\* the state to FAILED, requests no token, and the promise synchronize()
\* returned rejects; only after an authorization failure does the promise
\* of a failed pass resolve.
OtherFailuresAreFatal ==
  [][\A p \in PassIds :
       /\ \A status \in Statuses :
            FailsWith(p, status) =>
              /\ passes'[p].outcome = "failure"
              /\ IF isAuthFailure(status)
                   THEN passes'[p].promise = "resolved"
                   ELSE /\ passes'[p].promise = "rejected"
                        /\ state' = FAILED
                        /\ authPending' = authPending
                        /\ token' = token
       /\ (Active(passes[p]) /\ passes'[p].outcome = "failure") =>
            /\ passes'[p].promise \in {"resolved", "rejected"}
            /\ passes'[p].promise = "rejected" =>
                 (state' = FAILED /\ authPending' = authPending)
            /\ passes'[p].promise = "resolved" => token' = NoToken]_vars

\* C13, its case: a file transfer of a pass has failed with an error that
\* is no authorization error.
TransferFailedFatally ==
  \E p \in PassIds :
    /\ passes[p].outcome = "failure"
    /\ passes[p].promise = "rejected"
    /\ ~passes[p].listFailed
    /\ state = FAILED

\* C14: while the state is FAILED, no step other than an explicit call of
\* synchronize() by the user changes the state, starts a pass or requests
\* a token.
FailedIsSticky ==
  [][(state = FAILED /\ calledBy' # "user") =>
       /\ state' = FAILED
       /\ lastCall' \notin {"start", "authenticate"}
       /\ authPending' <= authPending]_vars

\* The transitions of the state machine in the class documentation.
Transitions ==
  { <<DISCONNECTED, NEEDS_SYNC>>, <<NEEDS_SYNC, SYNCING>>,
    <<IN_SYNC, NEEDS_SYNC>>, <<IN_SYNC, SYNCING>>,
    <<SYNCING, IN_SYNC>>, <<SYNCING, DISCONNECTED>>, <<SYNCING, FAILED>>,
    <<FAILED, SYNCING>> }

\* The value the state takes in the middle of a step: a token callback and
\* the start with a stored token set NEEDS_SYNC before they call synchronize.
Midway == IF calledBy' \in {"auth", "init"} THEN NEEDS_SYNC ELSE state

\* C15: every change of the state is a transition of the state machine, and
\* FAILED is left for SYNCING only by a call of synchronize() by the user.
OnlyStateMachineTransitions ==
  [][/\ state # Midway => <<state, Midway>> \in Transitions
     /\ Midway # state' => <<Midway, state'>> \in Transitions
     /\ (state = FAILED /\ state' = SYNCING) => calledBy' = "user"]_vars

\* C16: a call of synchronize() in state DISCONNECTED requests a token and
\* does nothing else: the state stays DISCONNECTED, no pass starts, and the
\* timer, the flag for pending changes, the time of the last pass, the
\* stores and the token are as they were.
SynchronizeWhileDisconnectedOnlyAuthenticates ==
  [][/\ (state = DISCONNECTED /\ UserSynchronize) => lastCall' = "authenticate"
     /\ lastCall' = "authenticate" =>
          /\ state = DISCONNECTED
          /\ state' = DISCONNECTED
          /\ authPending' = authPending + 1
          /\ IF calledBy' = "user" THEN elapsed' = elapsed ELSE elapsed' >= elapsed
          /\ UNCHANGED <<needsSync, syncInterval, timers, passes, local, remote,
                         retryCount, token, storedToken>>]_vars

\* C16, its case: the application has called synchronize() while
\* DISCONNECTED, after an authorization failure cleared the token.
SynchronizeCalledWhileDisconnected ==
  /\ lastCall = "authenticate"
  /\ calledBy = "user"
  /\ state = DISCONNECTED
  /\ retryCount >= 1

\* C17: while the background timer is armed no pass is in progress: no
\* listing and no transfer is in flight.
TimerArmedOnlyBetweenPasses ==
  syncInterval =>
    \A p \in PassIds : ~Active(passes[p]) /\ OpsWaiting(passes[p]) = {}

\* The time since the last pass started, as a timer callback finds it.
TickTime ==
  IF elapsed + SHORT_SYNC_INTERVAL_MS > ElapsedCap
    THEN ElapsedCap ELSE elapsed + SHORT_SYNC_INTERVAL_MS

\* C18: a timer callback calls synchronize() if and only if local changes
\* are pending or more than the long interval has passed since the last
\* pass started; otherwise it changes nothing but the clock.  The time of
\* the last pass is reset only by the start of a pass.
TickSynchronizesWhenDue ==
  [][/\ Tick =>
          IF needsSync \/ TickTime > LONG_SYNC_INTERVAL_MS
            THEN calledBy' = "timer"
            ELSE /\ calledBy' = "none"
                 /\ lastCall' = "none"
                 /\ elapsed' = TickTime
                 /\ UNCHANGED <<state, needsSync, syncInterval, timers, passes, local,
                                remote, authPending, token, storedToken, retryCount>>
     /\ calledBy' = "timer" =>
          (syncInterval /\ (needsSync \/ TickTime > LONG_SYNC_INTERVAL_MS))
     /\ elapsed' < elapsed => lastCall' = "start"]_vars

\* C18, its case: the timer has started a pass with no local change
\* pending, the long interval having passed.
TimerStartedPassAfterLongInterval ==
  /\ calledBy = "timer"
  /\ lastCall = "start"
  /\ \E p \in PassIds : passes[p].phase = "listing" /\ passes[p].clean

\* C19: a notification of a local change sets the flag for pending changes,
\* changes the state to NEEDS_SYNC if it was IN_SYNC and leaves it as it was
\* otherwise; it starts no pass, requests no token and sends nothing to the
\* drive.
NotificationOnlyMarks ==
  [][edits' # edits =>
       /\ needsSync'
       /\ state' = IF state = IN_SYNC THEN NEEDS_SYNC ELSE state
       /\ lastCall' = "none"
       /\ \A p \in PassIds :
            /\ passes'[p].phase = passes[p].phase
            /\ passes'[p].ops = passes[p].ops
       /\ UNCHANGED <<remote, authPending, token, storedToken, syncInterval, timers,
                      elapsed, retryCount>>]_vars

\* C19, its case: a local change was notified in state IN_SYNC, and no
\* pass has started since.
NotifiedWhileInSync ==
  /\ edits >= 1
  /\ needsSync
  /\ state = NEEDS_SYNC
  /\ syncInterval

\* C20: after a local change is notified in state IN_SYNC, the next timer
\* callback starts a pass, unless one has started before it: the state
\* becomes SYNCING.
TickStartsPassForPendingChange ==
  [][(Tick /\ notifiedInSync) => (lastCall' = "start" /\ state' = SYNCING)]_vars

\* C21: a state IN_SYNC does not last: with the timer firing, a pass starts
\* (SYNCING) once the long interval has passed, unless a local change
\* (NEEDS_SYNC) or the failure of a pass (DISCONNECTED, FAILED) comes first.
PeriodicSynchronization ==
  (state = IN_SYNC) ~>
     (state = SYNCING \/ state = NEEDS_SYNC \/ state \in {DISCONNECTED, FAILED})

\* C21, its case: the timer has started a pass with no local change ever
\* made and no failure since the last success.
PeriodicPassStarted ==
  /\ calledBy = "timer"
  /\ lastCall = "start"
  /\ state = SYNCING
  /\ edits = 0
  /\ retryCount = 0

\* An operation of pass p fails in this step.
OperationFails(p) ==
  \E n \in LocalNames :
    \/ \E status \in Statuses : RequestFailWith(p, n, status)
    \/ DownloadOk(p, n) /\ passes'[p].outcome = "failure"

\* C22: a pass is declared successful, and the state IN_SYNC, only once
\* every file operation of the pass has completed; a pass one of whose
\* operations fails is never declared successful and never sets IN_SYNC,
\* and an operation that has settled is not started again.
SuccessOnlyAfterEveryOperation ==
  [][\A p \in PassIds :
       /\ (Active(passes[p]) /\ passes'[p].outcome = "success") =>
            /\ state' = IN_SYNC
            /\ \A n \in DOMAIN passes'[p].ops : passes'[p].ops[n].st = "done"
       /\ (state # IN_SYNC /\ state' = IN_SYNC) =>
            \E q \in PassIds : Active(passes[q]) /\ passes'[q].outcome = "success"
       /\ (Active(passes[p]) /\ OperationFails(p)) =>
            (passes'[p].outcome = "failure" /\ state' # IN_SYNC)
       /\ (passes[p].outcome = "failure" /\ lastCall' # "start") =>
            /\ passes'[p].outcome = "failure"
            /\ passes'[p].ops # passes[p].ops => state' = state
       /\ (passes[p].phase \in {"transfers", "settled"} /\ lastCall' # "start") =>
            \A n \in DOMAIN passes[p].ops :
              /\ ~Waiting(passes[p].ops[n]) => ~Waiting(passes'[p].ops[n])
              /\ passes[p].ops[n].st = "patch" => passes'[p].ops[n].st # "create"]_vars

\* C22, its case: a pass with an upload or a download has been declared
\* successful.
PassWithTransfersSucceeded ==
  \E p \in PassIds :
    /\ passes[p].outcome = "success"
    /\ \E n \in DOMAIN passes[p].ops : passes[p].ops[n].action # "none"
    /\ state = IN_SYNC

\* C23: whenever the state is IN_SYNC the flag for pending local changes is
\* not set.
InSyncMeansNoPendingChange == state = IN_SYNC => ~needsSync

\* C24: a pass that fails with an error that is no authorization error
\* leaves the retry counter as it was.
OtherFailuresLeaveRetryCount ==
  [][\A p \in PassIds, status \in Statuses \ AuthStatuses :
       FailsWith(p, status) => retryCount' = retryCount]_vars

\* A pass is declared successful in this step.
PassSucceeds == \E p \in PassIds : Active(passes[p]) /\ passes'[p].outcome = "success"

\* C25: the retry counter is 0 right after every successful pass, and no
\* other step decreases it.
RetryCountResetOnlyBySuccess ==
  [][/\ PassSucceeds => retryCount' = 0
     /\ retryCount' < retryCount => PassSucceeds]_vars

\* C25, its case: a pass has succeeded after a pass that failed, and the
\* counter is back at 0.
SucceededAfterAFailure ==
  /\ state = IN_SYNC
  /\ retryCount = 0
  /\ token # NoToken
  /\ \E p \in PassIds : passes[p].outcome = "failure" /\ ~passes[p].listFailed

\* C26: starting from a retry counter of 0, each of the first three
\* authorization failures in a row requests a new token (DISCONNECTED);
\* only a later one gives FAILED.
FirstThreeAuthFailuresReauthenticate ==
  [][\A p \in PassIds, status \in AuthStatuses :
       (/\ FailsWith(p, status)
        /\ retryCount = authFailures
        /\ authFailures + 1 <= MAX_RETRIES) =>
         /\ state' = DISCONNECTED
         /\ authPending' = authPending + 1]_vars

\* The entries of the drive that carry the name of checklist n.
EntriesNamed(n) == {id \in DOMAIN remote : remote[id].name = WithExtension(n)}

\* The entries that files.create made for checklist n and that no upload
\* has filled, none being on its way.
Placeholders(n) ==
  {id \in EntriesNamed(n) :
     /\ remote[id].modifiedTime = EPOCH
     /\ \A q \in PassIds : \A m \in DOMAIN passes[q].ops :
          ~(Waiting(passes[q].ops[m]) /\ passes[q].ops[m].id = id)}

\* C27: files.create leaves an entry with the epoch as its modification
\* time; a pass that decides while such an entry waits for the contents of
\* a checklist that is still in the local store decides upload for it, with
\* the id of that entry and without creating another.
PlaceholderIsUploadedAgain ==
  [][/\ \A p \in PassIds, n \in LocalNames :
          CreateOk(p, n) =>
            \E id \in DOMAIN remote' \ DOMAIN remote :
              /\ remote'[id].modifiedTime = EPOCH
              /\ remote'[id].name = WithExtension(n)
     /\ \A p \in PassIds :
          Decides(p) =>
            \A n \in passes[p].localChecklistNames \cap DOMAIN local :
              Placeholders(n) # {} =>
                /\ passes'[p].ops[n].action = "upload"
                /\ passes'[p].ops[n].id \in Placeholders(n)
                /\ passes'[p].ops[n].st = "patch"]_vars

\* C28: a pass that fails with an authorization error leaves neither the
\* token in memory nor the token in browser storage in place.
AuthFailureForgetsStoredToken ==
  [][\A p \in PassIds, status \in AuthStatuses :
       FailsWith(p, status) => (token' = NoToken /\ storedToken' = NoToken)]_vars

\* C29: the local store is changed only by a download (and by the user),
\* the drive only by an upload (files.create and the PATCH).  Listing,
\* deciding, failures, the timer, notifications and the calls of
\* synchronize() that start no pass leave both as they were, and a pass
\* that decides none for every name never changes either.
OnlyTransfersChangeStores ==
  [][/\ local' # local =>
          \/ edits' # edits
          \/ \E p \in PassIds, n \in LocalNames : DownloadOk(p, n)
     /\ remote' # remote =>
          \E p \in PassIds, n \in LocalNames : CreateOk(p, n) \/ PatchOk(p, n)
     /\ lastCall' \in {"overlap", "authenticate", "start"} => UNCHANGED <<local, remote>>
     /\ \A p \in PassIds :
          (Decides(p) /\ \A n \in DOMAIN passes'[p].ops : passes'[p].ops[n].action = "none") =>
            /\ UNCHANGED <<local, remote>>
            /\ OpsWaiting(passes'[p]) = {}]_vars

\* C29, its case: a pass that decided none for every name has succeeded.
PassOfNoneSucceeded ==
  \E p \in PassIds :
    /\ passes[p].outcome = "success"
    /\ DOMAIN passes[p].ops # {}
    /\ \A n \in DOMAIN passes[p].ops : passes[p].ops[n].action = "none"

\* The download of pass p for name n answers in this step with a checklist
\* whose own name is not n.
DownloadsRenamed(p, n) ==
  /\ DownloadOk(p, n)
  /\ isJson(remote[passes[p].ops[n].id].content)
  /\ WithExtension(fromJsonString(remote[passes[p].ops[n].id].content).name)
       # passes[p].remoteFileMap[n].name

\* C30: a downloaded checklist whose own name is not the name of the remote
\* file is saved all the same, under its own name and with the remote
\* modification time; the pass does not fail by it, and succeeds (IN_SYNC)
\* if this was its last operation.
NameMismatchIsOnlyAWarning ==
  [][\A p \in PassIds, n \in LocalNames :
       DownloadsRenamed(p, n) =>
         LET checklist == fromJsonString(remote[passes[p].ops[n].id].content)
             listed == passes[p].remoteFileMap[n]
         IN  /\ checklist.name \in DOMAIN local'
             /\ local'[checklist.name].body = checklist.body
             /\ localModifiedTime(local'[checklist.name]) = parseDate(listed.modifiedTime)
             /\ passes'[p].ops[n].st = "done"
             /\ Active(passes[p]) => passes'[p].outcome # "failure"
             /\ (Active(passes[p]) /\ OpsWaiting(passes'[p]) = {}) =>
                  (passes'[p].outcome = "success" /\ state' = IN_SYNC)]_vars

\* C30, its case: a pass that downloaded a checklist of another name than
\* the remote file's has succeeded.
RenamedDownloadSucceeded ==
  /\ state = IN_SYNC
  /\ \E p \in PassIds :
       /\ passes[p].outcome = "success"
       /\ \E n \in DOMAIN passes[p].ops \cap DOMAIN passes[p].remoteFileMap :
            /\ passes[p].ops[n].action = "download"
            /\ passes[p].ops[n].id \in DOMAIN remote
            /\ isJson(remote[passes[p].ops[n].id].content)
            /\ fromJsonString(remote[passes[p].ops[n].id].content).name # n
            /\ fromJsonString(remote[passes[p].ops[n].id].content).name \in DOMAIN local

\* C31: with every request answered, every pass comes to its end and the
\* state SYNCING leads to IN_SYNC, FAILED or DISCONNECTED; a pass stops
\* only by its success or failure handler.
EveryPassTerminates ==
  /\ (state = SYNCING) ~> (state \in {IN_SYNC, FAILED, DISCONNECTED})
  /\ [][\A p \in PassIds :
          (Active(passes[p]) /\ ~Active(passes'[p])) =>
            /\ passes'[p].phase = "settled"
            /\ passes'[p].outcome \in {"success", "failure"}
            /\ state' \in {IN_SYNC, FAILED, DISCONNECTED}]_vars

\* C31, its case: a pass with several requests has come to its end and no
\* pass is running.
PassHasTerminated ==
  /\ state \in {IN_SYNC, FAILED, DISCONNECTED}
  /\ \A p \in PassIds : ~Active(passes[p]) /\ OpsWaiting(passes[p]) = {}
  /\ \E p \in PassIds :
       /\ passes[p].phase = "settled"
       /\ \E n \in DOMAIN passes[p].ops : passes[p].ops[n].action = "upload"

\* C32: the remote filename of a checklist is its name with the extension,
\* the index holds it under its name again, and two remote files of distinct
\* filenames are never indexed under one name.
SuffixIsStrippedAndAppendedConsistently ==
  /\ \A id \in DOMAIN trip.drive :
       /\ trip.drive[id].name = trip.names[id] \o <<CHECKLIST_EXTENSION>>
       /\ StripExtension(trip.drive[id].name) = trip.names[id]
       /\ \A other \in DOMAIN trip.drive :
            trip.drive[id].name # trip.drive[other].name =>
              StripExtension(trip.drive[id].name) # StripExtension(trip.drive[other].name)
  /\ trip.stage = "indexed" =>
       /\ DOMAIN trip.index = {trip.names[1], trip.names[2]}
       /\ \A n \in DOMAIN trip.index : trip.index[n].name = n \o <<CHECKLIST_EXTENSION>>

\* C32, its case: two checklists of distinct names, one of them a name that
\* ends with the extension itself, have been created and indexed.
NamesWithExtensionIndexed ==
  /\ trip.stage = "indexed"
  /\ trip.names[1] # trip.names[2]
  /\ trip.names[2] = trip.names[1] \o <<CHECKLIST_EXTENSION>>

\* C33: the flag for pending changes is cleared only by the start of a pass;
\* when a pass succeeds that a change was notified to while it ran, the
\* flag is set, and a timer callback that finds the flag set after a success
\* starts a pass.
NotificationDuringPassIsNotLost ==
  /\ [][(needsSync /\ ~needsSync') => (lastCall' = "start" /\ state' = SYNCING)]_vars
  /\ [][\A p \in PassIds :
          (Active(passes[p]) /\ passes[p].notified /\ passes'[p].outcome = "success") =>
            needsSync']_vars
  /\ [][(Tick /\ needsSync /\ state \in {IN_SYNC, NEEDS_SYNC}) =>
          (lastCall' = "start" /\ state' = SYNCING)]_vars

\* C34: a create request is answered for a name only when the drive holds no
\* entry of the name, and the drive never holds two entries of one name.
NoDuplicateRemoteEntries ==
  /\ [][\A p \in PassIds, n \in LocalNames :
          CreateOk(p, n) => EntriesNamed(n) = {}]_vars
  /\ [](\A n \in LocalNames : Cardinality(EntriesNamed(n)) <= 1)

\* C35: at most one interval is live, the one _syncInterval holds; a start
\* of the scheduler while it runs arms none, and the timer callback that
\* calls synchronize() is the one of the armed timer.
AtMostOneTimerArmed ==
  /\ [](timers = IF syncInterval THEN 1 ELSE 0)
  /\ [][(syncInterval /\ PassSucceeds) => (syncInterval' /\ timers' = timers)]_vars
  /\ [][(syncInterval /\ ~syncInterval') => timers' = 0]_vars
  /\ [][calledBy' = "timer" => syncInterval]_vars

\* C35, its case: the scheduler has been started while it ran, by the
\* second of two passes that succeeded one beside the other.
TimerStartedWhileRunning ==
  /\ syncInterval
  /\ \A p \in PassIds : passes[p].phase = "settled" /\ passes[p].outcome = "success"

ResponseWithoutTokenChangesNothing ==
  [][/\ AuthCallbackNoToken =>
          /\ state' = state
          /\ token' = token /\ storedToken' = storedToken
          /\ passes' = passes
          /\ authPending' = authPending - 1
          /\ lastCall' = "none"
          /\ <<retryCount, needsSync, syncInterval, timers, local, remote>>' =
               <<retryCount, needsSync, syncInterval, timers, local, remote>>
     /\ (apiReady /\ state = DISCONNECTED /\ authPending = 0 /\ ActivePasses = {}) =>
          /\ state' = DISCONNECTED
          /\ ActivePasses' = {}
          /\ authPending' > 0 => lastCall' = "authenticate"]_vars

\* C38, its case: the token request made after a pass failed for
\* authorization has been answered without a token.
SignedOutAfterResponseWithoutToken ==
  /\ state = DISCONNECTED
  /\ authPending = 0
  /\ retryCount >= 1
  /\ token = NoToken
  /\ ActivePasses = {}

====
